---------------------------- MODULE Spec2Model ----------------------------
(***************************************************************************)
(* Model of app_mcp_http.py: a Streamlit script that reads three sheets of *)
(* a Google Sheets document (CSV export), normalises them and draws three  *)
(* charts.                                                                 *)
(*                                                                         *)
(* A Python str is modelled as a sequence of characters; a character is a  *)
(* one-token string ("a", "%", " ").  An accented letter is the token      *)
(* base+mark ("e+acute" is U+00E9) and a combining mark is "+mark"         *)
(* ("+acute" is U+0301).  A float is a fixed-point integer: the value      *)
(* times Scale; NaN is a token of its own.                                 *)
(***************************************************************************)
EXTENDS Integers, Sequences, FiniteSets, TLC

VARIABLES
    \* ---- normalisation of headers (normalize_columns) ----
    columns_in,     \* the headers of a raw table
    columns_out,    \* the headers after normalize_columns, or Nothing
    columns_again,  \* the headers after a second normalize_columns, or Nothing
    \* ---- one loader call (load_variation / load_mm / load_rsi) ----
    df_raw,         \* the raw table handed to the loader
    call,           \* what was called: "none" or the name of the function
    args,           \* the candidate list of a find_column call
    ret,            \* what the call returned or raised
    \* ---- the button action ----
    pc,             \* position in the button handler
    url_or_id,      \* the text field "URL ou ID du Google Sheets"
    server,         \* what the CSV export answers for each sheet
    sheet_id,       \* the extracted spreadsheet id, or Nothing
    fetched,        \* the fetches issued so far, in order
    loaded,         \* the loader calls made so far, in order
    dfs,            \* df_var / df_mm / df_rsi: Nothing, Some(None) or Some(table)
    msgs_of,        \* msgs_var / msgs_mm / msgs_rsi
    st_error,       \* the st.error messages shown, in order
    st_pyplot,      \* the charts shown by st.pyplot, in order
    st_info,        \* the st.info notices shown
    stopped,        \* st.stop() was called
    raised          \* the exception that ended the script run, or None

vars == <<columns_in, columns_out, columns_again, df_raw, call, args, ret,
          pc, url_or_id, server, sheet_id, fetched, loaded, dfs, msgs_of,
          st_error, st_pyplot, st_info, stopped, raised>>

normVars == <<columns_in, columns_out, columns_again>>
loadVars == <<df_raw, call, args, ret>>
btnVars  == <<pc, url_or_id, server, sheet_id, fetched, loaded, dfs, msgs_of,
              st_error, st_pyplot, st_info, stopped, raised>>

\* An optional value (a variable not yet bound, Python's None) is the empty
\* sequence, and a present value v is <<v>>.
Nothing == <<>>
Some(v) == <<v>>

(***************************************************************************)
(* Bounds of the model.                                                    *)
(***************************************************************************)
MaxLen == 4
MaxCols == 4
MaxRows == 3
MaxUrlLen == 5

(***************************************************************************)
(* Characters.                                                             *)
(***************************************************************************)
Upper == <<"A","B","C","D","E","F","G","H","I","J","K","L","M",
           "N","O","P","Q","R","S","T","U","V","W","X","Y","Z">>
Lower == <<"a","b","c","d","e","f","g","h","i","j","k","l","m",
           "n","o","p","q","r","s","t","u","v","w","x","y","z">>
Digit == <<"0","1","2","3","4","5","6","7","8","9">>

Range(f) == { f[i] : i \in DOMAIN f }

\* <<precomposed character, base character, combining mark, lower case>>
Precomposed ==
    { <<"E+acute", "E", "+acute", "e+acute">>,
      <<"e+acute", "e", "+acute", "e+acute">>,
      <<"C+cedilla", "C", "+cedilla", "c+cedilla">>,
      <<"c+cedilla", "c", "+cedilla", "c+cedilla">> }

Whitespace == {" ", "\t", "\n"}

\* What the regular expression class \w matches (Unicode letters, digits, _).
Word == Range(Upper) \cup Range(Lower) \cup Range(Digit) \cup {"_"}
            \cup { p[1] : p \in Precomposed }

\* unicodedata.normalize("NFKD", c) of one character
NFKD(c) ==
    IF \E p \in Precomposed : p[1] = c
    THEN LET p == CHOOSE q \in Precomposed : q[1] = c IN <<p[2], p[3]>>
    ELSE <<c>>

\* unicodedata.combining(c) is non-zero
combining(c) == c \in { p[3] : p \in Precomposed }

\* str.lower(), character by character
LowerMap ==
    [c \in Range(Upper) \cup { p[1] : p \in Precomposed } |->
        IF \E i \in DOMAIN Upper : Upper[i] = c
        THEN Lower[CHOOSE i \in DOMAIN Upper : Upper[i] = c]
        ELSE (CHOOSE q \in Precomposed : q[1] = c)[4]]

lower_char(c) == IF c \in DOMAIN LowerMap THEN LowerMap[c] ELSE c

\* Op applied to the value of v, which is evaluated once
On(v, Op(_)) == CHOOSE r \in { Op(x) : x \in {v} } : TRUE

RECURSIVE Flatten(_)
Flatten(ss) == IF ss = <<>> THEN <<>> ELSE Head(ss) \o Flatten(Tail(ss))

\* the characters of x that are not in drop
Filter(x, drop) == SelectSeq(x, LAMBDA c : c \notin drop)

RECURSIVE LStrip(_, _)
LStrip(x, cls) ==
    IF x # <<>> /\ Head(x) \in cls THEN LStrip(Tail(x), cls) ELSE x

RECURSIVE RStrip(_, _)
RStrip(x, cls) ==
    IF x # <<>> /\ x[Len(x)] \in cls THEN RStrip(SubSeq(x, 1, Len(x) - 1), cls)
    ELSE x

\* str.strip(): both ends
Strip(x, cls) == On(On(x, LAMBDA y : LStrip(y, cls)), LAMBDA y : RStrip(y, cls))

RECURSIVE ReSubPlus(_, _, _, _)
\* re.sub(r"[cls]+", rep, x), or re.sub(r"[^cls]+", rep, x) when neg: every
\* maximal run of matching characters is replaced by rep
ReSubPlus(x, cls, neg, rep) ==
    IF x = <<>> THEN <<>>
    ELSE IF (Head(x) \in cls) # neg
         THEN IF Len(x) > 1 /\ ((x[2] \in cls) # neg)
              THEN ReSubPlus(Tail(x), cls, neg, rep)
              ELSE rep \o ReSubPlus(Tail(x), cls, neg, rep)
         ELSE <<Head(x)>> \o ReSubPlus(Tail(x), cls, neg, rep)

\* "".join(c for c in unicodedata.normalize("NFKD", s)
\*         if not unicodedata.combining(c))
strip_accents(s) ==
    On(On([i \in DOMAIN s |-> NFKD(s[i])], Flatten),
       LAMBDA nfkd : SelectSeq(nfkd, LAMBDA c : ~combining(c)))

\* strip_accents(str(s)).lower().strip()
lower_strip(s) ==
    On(On(strip_accents(s), LAMBDA x : [i \in DOMAIN x |-> lower_char(x[i])]),
       LAMBDA x : Strip(x, Whitespace))

\* re.sub(r"[^\w]+", "_", x)
sub_non_word(x) == ReSubPlus(x, Word, TRUE, <<"_">>)

\* re.sub(r"_+", "_", x)
sub_underscores(x) == ReSubPlus(x, {"_"}, FALSE, <<"_">>)

\* normalize_name without .lower(): a variant the case-insensitivity of
\* normalisation must tell apart
normalize_name_NoLower(s) ==
    On(On(On(On(strip_accents(s), LAMBDA x : Strip(x, Whitespace)),
             sub_non_word), sub_underscores),
       LAMBDA x : Strip(x, {"_"}))

\* normalize_name without the final .strip("_"): a variant the canonical form
\* must tell apart
normalize_name_NoFinalStrip(s) ==
    On(On(lower_strip(s), sub_non_word), sub_underscores)

normalize_name(s) ==
    On(On(On(lower_strip(s), sub_non_word), sub_underscores),
       LAMBDA x : Strip(x, {"_"}))

\* normalize_columns, on the headers of a table
normalize_columns_names(cols) == [i \in DOMAIN cols |-> normalize_name(cols[i])]


(***************************************************************************)
(* Tables.  A DataFrame is [columns, data]: the column labels in order and *)
(* one column [dtype, vals] per label.  A cell is a record of one shape:   *)
(* a str (k = "str", s its characters), a float (k = "num", n its value    *)
(* times Scale), NaN (k = "nan"), a timestamp (k = "date", n = yyyymmdd)   *)
(* or NaT (k = "nat").                                                     *)
(***************************************************************************)
Scale == 1000

Str(s)  == [k |-> "str",  s |-> s,    n |-> 0]
Num(n)  == [k |-> "num",  s |-> <<>>, n |-> n]
NaN     == [k |-> "nan",  s |-> <<>>, n |-> 0]
Date(n) == [k |-> "date", s |-> <<>>, n |-> n]
NaT     == [k |-> "nat",  s |-> <<>>, n |-> 0]

Column(dtype, vals) == [dtype |-> dtype, vals |-> vals]
Frame(columns, data) == [columns |-> columns, data |-> data]

\* the string literals of the source
S_date == <<"d","a","t","e">>
S_jour == <<"j","o","u","r">>
S_datetime == <<"d","a","t","e","t","i","m","e">>
S_variation_pct == <<"v","a","r","i","a","t","i","o","n","_","p","c","t">>
S_variation == <<"v","a","r","i","a","t","i","o","n">>
S_variation_journaliere == <<"v","a","r","i","a","t","i","o","n","_","j","o","u","r","n","a","l","i","e","r","e">>
S_rendement == <<"r","e","n","d","e","m","e","n","t">>
S_return == <<"r","e","t","u","r","n">>
S_close == <<"c","l","o","s","e">>
S_cours == <<"c","o","u","r","s">>
S_price == <<"p","r","i","c","e">>
S_close_price == <<"c","l","o","s","e","_","p","r","i","c","e">>
S_mm50 == <<"m","m","5","0">>
S_ma50 == <<"m","a","5","0">>
S_sma50 == <<"s","m","a","5","0">>
S_mm200 == <<"m","m","2","0","0">>
S_ma200 == <<"m","a","2","0","0">>
S_sma200 == <<"s","m","a","2","0","0">>
S_court == <<"c","o","u","r","t">>
S_rsi_court == <<"r","s","i","_","c","o","u","r","t">>
S_rsi_short == <<"r","s","i","_","s","h","o","r","t">>
S_rsi7 == <<"r","s","i","7">>
S_rsi_7 == <<"r","s","i","_","7">>
S_moyen == <<"m","o","y","e","n">>
S_rsi_moyen == <<"r","s","i","_","m","o","y","e","n">>
S_rsi14 == <<"r","s","i","1","4">>
S_rsi_14 == <<"r","s","i","_","1","4">>
S_long_terme == <<"l","o","n","g","_","t","e","r","m","e">>
S_long == <<"l","o","n","g">>
S_rsi_long == <<"r","s","i","_","l","o","n","g">>
S_rsi28 == <<"r","s","i","2","8">>
S_rsi_28 == <<"r","s","i","_","2","8">>
S_rsi_long_terme == <<"r","s","i","_","l","o","n","g","_","t","e","r","m","e">>
S_longterme == <<"l","o","n","g","t","e","r","m","e">>

IsDigits(s) == \A i \in DOMAIN s : s[i] \in Range(Digit)

DigitVal(c) == (CHOOSE i \in DOMAIN Digit : Digit[i] = c) - 1

RECURSIVE DigitsVal(_)
DigitsVal(s) ==
    IF s = <<>> THEN 0
    ELSE 10 * DigitsVal(SubSeq(s, 1, Len(s) - 1)) + DigitVal(s[Len(s)])

\* the index of the first c in s, or 0
IndexOf(s, c) ==
    IF \E i \in DOMAIN s : s[i] = c
    THEN CHOOSE i \in DOMAIN s : s[i] = c /\ \A j \in 1..(i - 1) : s[j] # c
    ELSE 0

\* The float a string denotes for pandas.to_numeric, times Scale, or Nothing
\* when the string is no number: an optional sign, digits, and an optional
\* point followed by digits (at most three decimals are kept).
ParseFloat(s) ==
    LET signed == s # <<>> /\ s[1] \in {"-", "+"}
        body == IF signed THEN Tail(s) ELSE s
        dot == IndexOf(body, ".")
        ip == IF dot = 0 THEN body ELSE SubSeq(body, 1, dot - 1)
        fp == IF dot = 0 THEN <<>> ELSE SubSeq(body, dot + 1, Len(body))
        fp3 == SubSeq(fp \o <<"0", "0", "0">>, 1, 3)
        mag == DigitsVal(ip) * Scale + DigitsVal(fp3)
    IN  IF IsDigits(ip) /\ IsDigits(fp) /\ Len(ip) + Len(fp) > 0
        THEN Some(IF signed /\ s[1] = "-" THEN 0 - mag ELSE mag)
        ELSE Nothing

\* The timestamp a string denotes for pandas.to_datetime, as yyyymmdd, or
\* Nothing: the ISO form yyyy-mm-dd.
ParseDate(s) ==
    IF /\ Len(s) = 10 /\ s[5] = "-" /\ s[8] = "-"
       /\ IsDigits(SubSeq(s, 1, 4)) /\ IsDigits(SubSeq(s, 6, 7))
       /\ IsDigits(SubSeq(s, 9, 10))
       /\ DigitsVal(SubSeq(s, 6, 7)) \in 1..12
       /\ DigitsVal(SubSeq(s, 9, 10)) \in 1..31
    THEN Some(DigitsVal(SubSeq(s, 1, 4)) * 10000
                + DigitsVal(SubSeq(s, 6, 7)) * 100
                + DigitsVal(SubSeq(s, 9, 10)))
    ELSE Nothing

\* pd.to_datetime(s, errors="coerce")
to_datetime_safe(col) ==
    Column("datetime64",
           [i \in DOMAIN col.vals |->
               LET c == col.vals[i]
               IN  IF c.k = "str" /\ ParseDate(c.s) # Nothing
                   THEN Date(ParseDate(c.s)[1])
                   ELSE IF c.k = "date" THEN c ELSE NaT])

\* the three str.replace of to_numeric_safe on one entry
CleanNumber(s) ==
    On(On(Filter(s, Whitespace),
          LAMBDA s2 : [i \in DOMAIN s2 |-> IF s2[i] = "," THEN "." ELSE s2[i]]),
       LAMBDA s3 : Filter(s3, {"%"}))

\* pd.to_numeric(col, errors="ignore") on a column of str: the floats when
\* every entry parses, and otherwise the input as it is
pd_to_numeric_ignore(col) ==
    IF \A i \in DOMAIN col.vals :
           col.vals[i].k = "str" => ParseFloat(col.vals[i].s) # Nothing
    THEN Column("float64",
                [i \in DOMAIN col.vals |->
                    IF col.vals[i].k = "str"
                    THEN Num(ParseFloat(col.vals[i].s)[1])
                    ELSE col.vals[i]])
    ELSE col

to_numeric_safe(col) ==
    IF col.dtype = "object"
    THEN pd_to_numeric_ignore(
             Column("object",
                    [i \in DOMAIN col.vals |->
                        IF col.vals[i].k = "str"
                        THEN Str(CleanNumber(col.vals[i].s))
                        ELSE col.vals[i]]))
    ELSE col

HasDuplicates(seq) == \E i, j \in DOMAIN seq : i # j /\ seq[i] = seq[j]

normalize_columns(d) == Frame(normalize_columns_names(d.columns), d.data)

\* normalize_types raises when a label is held by two columns: d[c] is then a
\* DataFrame, which has no dtype, and to_datetime refuses it
normalize_types_raises(d) == HasDuplicates(d.columns)

normalize_types(d) ==
    Frame(d.columns,
          [i \in DOMAIN d.columns |->
              IF d.columns[i] = S_date
              THEN to_datetime_safe(d.data[i])
              ELSE to_numeric_safe(d.data[i])])

\* sub in s (Python's "in" on two str)
Contains(sub, s) ==
    \E i \in 0..(Len(s) - Len(sub)) : SubSeq(s, i + 1, i + Len(sub)) = sub

RECURSIVE FirstExact(_, _)
\* for c in candidates: n = normalize_name(c); if n in cols: return n
\* (ns: the candidates, normalised)
FirstExact(cols, ns) ==
    IF ns = <<>> THEN Nothing
    ELSE IF Head(ns) \in Range(cols) THEN Some(Head(ns))
         ELSE FirstExact(cols, Tail(ns))

RECURSIVE FirstContaining(_, _)
\* for ncol in df.columns: for c in candidates:
\*     if normalize_name(c) in ncol: return ncol
FirstContaining(cols, ns) ==
    IF cols = <<>> THEN Nothing
    ELSE IF \E j \in DOMAIN ns : Contains(ns[j], Head(cols))
         THEN Some(Head(cols))
         ELSE FirstContaining(Tail(cols), ns)

\* find_column without its first loop: a variant the precedence of exact
\* matches must tell apart
find_column_NoExactPass(cols, candidates) ==
    On([j \in DOMAIN candidates |-> normalize_name(candidates[j])],
       LAMBDA ns : FirstContaining(cols, ns))

find_column(cols, candidates) ==
    On([j \in DOMAIN candidates |-> normalize_name(candidates[j])],
       LAMBDA ns : On(FirstExact(cols, ns),
                      LAMBDA exact : IF exact # Nothing THEN exact
                                     ELSE FirstContaining(cols, ns)))

(***************************************************************************)
(* The three loaders.  A loader returns [exc, missing, out, msgs]: exc is  *)
(* "none" and out the table, or exc is the exception raised, out Nothing   *)
(* and missing the logical columns its message names.                      *)
(***************************************************************************)
Return(out, msgs) ==
    [exc |-> "none", missing |-> <<>>, out |-> Some(out), msgs |-> msgs]
Raise(exc, missing) ==
    [exc |-> exc, missing |-> missing, out |-> Nothing, msgs |-> <<>>]

\* "not c" for an Optional[str]: None or the empty string
Falsy(c) == c = Nothing \/ c[1] = <<>>

\* d[name], the label being held by one column
ColumnOf(d, name) ==
    d.data[CHOOSE i \in DOMAIN d.columns : d.columns[i] = name]

\* d[[names]]
Select(d, names) ==
    Frame(names, [i \in DOMAIN names |-> ColumnOf(d, names[i])])

\* rename(columns={keys[1]: values[1], ...}): in a dict display a repeated
\* key keeps its last value
Rename(d, keys, values) ==
    Frame([i \in DOMAIN d.columns |->
              IF \E j \in DOMAIN keys : keys[j] = d.columns[i]
              THEN values[CHOOSE j \in DOMAIN keys :
                              /\ keys[j] = d.columns[i]
                              /\ \A l \in DOMAIN keys :
                                    keys[l] = d.columns[i] => l <= j]
              ELSE d.columns[i]],
          d.data)

\* out[name] = col
SetColumn(d, name, col) ==
    IF name \in Range(d.columns)
    THEN Frame(d.columns,
               [i \in DOMAIN d.columns |->
                   IF d.columns[i] = name THEN col ELSE d.data[i]])
    ELSE Frame(Append(d.columns, name), Append(d.data, col))

CountOf(seq, x) == Cardinality({ i \in DOMAIN seq : seq[i] = x })

Abs(n) == IF n < 0 THEN 0 - n ELSE n

\* the exception normalize_types(normalize_columns(df_raw)) ends with
normalize_exc(df) ==
    On(normalize_columns(df),
       LAMBDA d : IF CountOf(d.columns, S_date) > 1 THEN "ValueError"
                  ELSE IF normalize_types_raises(d) THEN "AttributeError"
                  ELSE "none")

\* c_date = "date" if "date" in d.columns else find_column(d, [...])
find_date(d) ==
    IF S_date \in Range(d.columns) THEN Some(S_date)
    ELSE find_column(d.columns, <<S_date, S_jour, S_datetime>>)

OutlierMsg == "Outliers"

\* (out["variation_pct"].abs() > 0.5).any(), or the exception it ends with
outlier_test(out) ==
    IF CountOf(out.columns, S_variation_pct) # 1
    THEN [exc |-> "ValueError", any |-> FALSE]
    ELSE On(ColumnOf(out, S_variation_pct),
            LAMBDA col :
              IF col.dtype # "float64"
              THEN [exc |-> "TypeError", any |-> FALSE]
              ELSE [exc |-> "none",
                    any |-> \E i \in DOMAIN col.vals :
                               /\ col.vals[i].k = "num"
                               /\ 2 * Abs(col.vals[i].n) > Scale])

\* load_variation once d and the two columns are known
load_variation_select(d, c_date, c_var) ==
    IF Falsy(c_date) \/ Falsy(c_var)
    THEN Raise("ValueError",
               (IF Falsy(c_date) THEN <<"date">> ELSE <<>>)
                  \o (IF Falsy(c_var) THEN <<"variation_pct">> ELSE <<>>))
    ELSE On(Rename(Select(d, <<c_date[1], c_var[1]>>),
                   <<c_date[1], c_var[1]>>, <<S_date, S_variation_pct>>),
            LAMBDA out :
              On(outlier_test(out),
                 LAMBDA test :
                   IF test.exc # "none" THEN Raise(test.exc, <<>>)
                   ELSE Return(out, IF test.any THEN <<OutlierMsg>>
                                    ELSE <<>>)))

load_variation(df) ==
    IF normalize_exc(df) # "none" THEN Raise(normalize_exc(df), <<>>)
    ELSE On(normalize_types(normalize_columns(df)),
            LAMBDA d :
              On(<<find_date(d),
                   find_column(d.columns,
                       <<S_variation_pct, S_variation, S_variation_journaliere,
                         S_rendement, S_return>>)>>,
                 LAMBDA c : load_variation_select(d, c[1], c[2])))

\* load_mm once d and the four columns are known
load_mm_select(d, c_date, c_close, c_mm50, c_mm200) ==
    IF c_date = Nothing \/ c_close = Nothing \/ c_mm50 = Nothing
          \/ c_mm200 = Nothing
    THEN Raise("ValueError",
               (IF c_date = Nothing THEN <<"date">> ELSE <<>>)
                  \o (IF c_close = Nothing THEN <<"close">> ELSE <<>>)
                  \o (IF c_mm50 = Nothing THEN <<"mm50">> ELSE <<>>)
                  \o (IF c_mm200 = Nothing THEN <<"mm200">> ELSE <<>>))
    ELSE Return(Rename(Select(d, <<c_date[1], c_close[1], c_mm50[1],
                                   c_mm200[1]>>),
                       <<c_date[1], c_close[1], c_mm50[1], c_mm200[1]>>,
                       <<S_date, S_close, S_mm50, S_mm200>>), <<>>)

load_mm(df) ==
    IF normalize_exc(df) # "none" THEN Raise(normalize_exc(df), <<>>)
    ELSE On(normalize_types(normalize_columns(df)),
            LAMBDA d :
              On(<<find_date(d),
                   find_column(d.columns,
                       <<S_close, S_cours, S_price, S_close_price>>),
                   find_column(d.columns, <<S_mm50, S_ma50, S_sma50>>),
                   find_column(d.columns, <<S_mm200, S_ma200, S_sma200>>)>>,
                 LAMBDA c : load_mm_select(d, c[1], c[2], c[3], c[4])))

\* if c: out[name] = d[c]
add_optional(d, out, name, c) ==
    IF Falsy(c) THEN out ELSE SetColumn(out, name, ColumnOf(d, c[1]))

\* load_rsi once d and the five columns are known
load_rsi_select(d, c_date, c_close, c_court, c_moyen, c_long) ==
    IF Falsy(c_date) \/ Falsy(c_close)
    THEN Raise("ValueError",
               (IF Falsy(c_date) THEN <<"date">> ELSE <<>>)
                  \o (IF Falsy(c_close) THEN <<"close">> ELSE <<>>))
    ELSE On(On(On(Rename(Select(d, <<c_date[1], c_close[1]>>),
                         <<c_date[1], c_close[1]>>, <<S_date, S_close>>),
                  LAMBDA out : add_optional(d, out, S_court, c_court)),
               LAMBDA out : add_optional(d, out, S_moyen, c_moyen)),
            LAMBDA out : Return(add_optional(d, out, S_long_terme, c_long),
                                <<>>))

load_rsi(df) ==
    IF normalize_exc(df) # "none" THEN Raise(normalize_exc(df), <<>>)
    ELSE On(normalize_types(normalize_columns(df)),
            LAMBDA d :
              On(<<find_date(d),
                   find_column(d.columns,
                       <<S_close, S_cours, S_price, S_close_price>>),
                   find_column(d.columns,
                       <<S_court, S_rsi_court, S_rsi_short, S_rsi7, S_rsi_7>>),
                   find_column(d.columns,
                       <<S_moyen, S_rsi_moyen, S_rsi14, S_rsi_14>>),
                   find_column(d.columns,
                       <<S_long_terme, S_long, S_rsi_long, S_rsi28, S_rsi_28,
                         S_rsi_long_terme, S_longterme>>)>>,
                 LAMBDA c : load_rsi_select(d, c[1], c[2], c[3], c[4], c[5])))

(***************************************************************************)
(* The charts.  A plot function returns [exc, pyplot, errors, info]: the   *)
(* exception that ended it ("none" when it returned), whether st.pyplot    *)
(* showed its figure, and the st.error and st.info messages it showed.     *)
(***************************************************************************)
Plotted(exc, pyplot, errors, info) ==
    [exc |-> exc, pyplot |-> pyplot, errors |-> errors, info |-> info]

NotNa(c) == c.k \in {"str", "num", "date"}

\* the rows in which every column of subset holds a value
\* (df.dropna(subset=...)), as row numbers
DropNaRows(d, subset) ==
    LET n == IF d.data = <<>> THEN 0 ELSE Len(d.data[1].vals)
    IN  { r \in 1..n : \A i \in DOMAIN d.columns :
             d.columns[i] \in subset => NotNa(d.data[i].vals[r]) }

RECURSIVE SortRows(_, _)
\* the rows of a set in ascending order of key (sort_values), ties in row order
SortRows(rows, key) ==
    IF rows = {} THEN <<>>
    ELSE LET r == CHOOSE x \in rows :
                     \A y \in rows : key[x].n < key[y].n
                                        \/ (key[x].n = key[y].n /\ x <= y)
         IN  <<r>> \o SortRows(rows \ {r}, key)

\* df.dropna(subset=subset).sort_values("date")
DropNaSorted(d, subset) ==
    On(SortRows(DropNaRows(d, subset), ColumnOf(d, S_date).vals),
       LAMBDA order :
         Frame(d.columns,
               [i \in DOMAIN d.columns |->
                   Column(d.data[i].dtype,
                          [j \in DOMAIN order |-> d.data[i].vals[order[j]]])]))

IsEmpty(d) == d.data = <<>> \/ d.data[1].vals = <<>>

\* s.dropna().iloc[-1] of last_non_nan: Nothing stands for None
last_non_nan(vals) ==
    IF \E i \in DOMAIN vals : NotNa(vals[i])
    THEN Some(vals[CHOOSE i \in DOMAIN vals :
                      NotNa(vals[i])
                      /\ \A j \in DOMAIN vals : NotNa(vals[j]) => j <= i])
    ELSE Nothing

\* What format(v, spec) ends with for the format specification the f-string
\* of insight_rsi passes, ".2f if rc is not None else float('nan')": None
\* accepts no specification, and for a float it is not a valid one.
format_exc(v, spec_is_valid) ==
    IF v = Nothing THEN "TypeError"
    ELSE IF spec_is_valid THEN "none" ELSE "ValueError"

\* insight_rsi: the exception its f-string ends with ("none": the text is built)
insight_rsi_exc(d) ==
    format_exc(last_non_nan(IF S_court \in Range(d.columns)
                            THEN ColumnOf(d, S_court).vals ELSE <<>>),
               FALSE)

\* f"{lab}: {y:.2f}" of the annotations needs a number
annotate_exc(d) ==
    IF \E i \in DOMAIN d.columns :
          /\ d.columns[i] \in {S_court, S_moyen, S_long_terme}
          /\ \E r \in DOMAIN d.data[i].vals : d.data[i].vals[r].k = "str"
    THEN "ValueError" ELSE "none"

\* date_range_label calls strftime on the least date: a str has none
date_range_label_exc(d) ==
    IF ColumnOf(d, S_date).dtype = "datetime64" THEN "none"
    ELSE "AttributeError"

plot_rsi(d) ==
    IF CountOf(d.columns, S_date) = 0
    THEN Plotted("KeyError", FALSE, <<>>, <<>>)
    ELSE On(DropNaSorted(d, {S_date}),
            LAMBDA df2 :
              IF IsEmpty(df2)
              THEN Plotted("none", FALSE, <<"rsi">>, <<>>)
              ELSE IF date_range_label_exc(df2) # "none"
              THEN Plotted(date_range_label_exc(df2), FALSE, <<>>, <<>>)
              ELSE IF annotate_exc(df2) # "none"
              THEN Plotted(annotate_exc(df2), FALSE, <<>>, <<>>)
              ELSE Plotted(insight_rsi_exc(df2), TRUE, <<>>, <<>>))

plot_variation(d, m) ==
    On(DropNaSorted(d, {S_date, S_variation_pct}),
       LAMBDA df2 :
         IF IsEmpty(df2)
         THEN Plotted("none", FALSE, <<"var">>, <<>>)
         ELSE IF date_range_label_exc(df2) # "none"
         THEN Plotted(date_range_label_exc(df2), FALSE, <<>>, <<>>)
         ELSE Plotted("none", TRUE, <<>>,
                      SelectSeq(m, LAMBDA x : x = OutlierMsg)))

\* insight_mm compares the last row's close, mm50 and mm200: a str does not
\* compare with a float
insight_mm_exc(d) ==
    LET kinds == { ColumnOf(d, c).dtype : c \in {S_close, S_mm50, S_mm200} }
    IN  IF ColumnOf(d, S_date).dtype # "datetime64" THEN "AttributeError"
        ELSE IF Cardinality(kinds) > 1 THEN "TypeError" ELSE "none"

plot_mm(d) ==
    IF CountOf(d.columns, S_date) = 0
    THEN Plotted("KeyError", FALSE, <<>>, <<>>)
    ELSE On(DropNaSorted(d, {S_date}),
            LAMBDA df2 :
              IF IsEmpty(df2)
              THEN Plotted("none", FALSE, <<"mm">>, <<>>)
              ELSE IF \E c \in {S_close, S_mm50, S_mm200} :
                         c \notin Range(df2.columns)
              THEN Plotted("KeyError", FALSE, <<>>, <<>>)
              ELSE Plotted(insight_mm_exc(df2), TRUE, <<>>, <<>>))

(***************************************************************************)
(* Source resolution.                                                      *)
(***************************************************************************)
\* the class [a-zA-Z0-9-_] of the regular expression
IdChars == Range(Upper) \cup Range(Lower) \cup Range(Digit) \cup {"-", "_"}

\* the length of the run of characters of cls that starts s at position i
RECURSIVE RunLength(_, _, _)
RunLength(s, i, cls) ==
    IF i <= Len(s) /\ s[i] \in cls THEN 1 + RunLength(s, i + 1, cls) ELSE 0

\* the positions at which r"/d/([a-zA-Z0-9-_]+)/" matches
IdMatches(s) ==
    { i \in 1..Len(s) :
        /\ i + 2 <= Len(s) /\ s[i] = "/" /\ s[i + 1] = "d" /\ s[i + 2] = "/"
        /\ RunLength(s, i + 3, IdChars) > 0
        /\ i + 3 + RunLength(s, i + 3, IdChars) <= Len(s)
        /\ s[i + 3 + RunLength(s, i + 3, IdChars)] = "/" }

\* extract_spreadsheet_id returns a str for every str: it raises nothing
extract_spreadsheet_id(s) ==
    IF IdMatches(s) # {}
    THEN LET i == CHOOSE x \in IdMatches(s) : \A y \in IdMatches(s) : x <= y
         IN  SubSeq(s, i + 3, i + 2 + RunLength(s, i + 3, IdChars))
    ELSE Strip(s, Whitespace)

extract_spreadsheet_id_exc(s) == "none"

(***************************************************************************)
(* Header normalisation: the inputs and the two steps.                     *)
(***************************************************************************)
\* one character of each kind a header is made of: upper case, lower case,
\* accented upper case, digit, underscore, space, punctuation
HeaderAlphabet == {"A", "a", "E+acute", "1", "_", " ", "%"}

StringsUpTo(alphabet, n) == UNION { [1..k -> alphabet] : k \in 0..n }

\* "Variation_%", "VARIATION %", "variation_pct"
VariationHeaders ==
    << <<"V","a","r","i","a","t","i","o","n","_","%">>,
       <<"V","A","R","I","A","T","I","O","N"," ","%">>,
       <<"v","a","r","i","a","t","i","o","n","_","p","c","t">> >>

NormIdle ==
    /\ columns_in = <<>> /\ columns_out = Nothing /\ columns_again = Nothing
LoadIdle ==
    /\ df_raw = Nothing /\ call = "none" /\ args = <<>> /\ ret = Nothing
BtnIdle ==
    /\ pc = "idle" /\ url_or_id = <<>> /\ server = Nothing
    /\ sheet_id = Nothing
    /\ fetched = <<>> /\ loaded = <<>> /\ dfs = Nothing /\ msgs_of = Nothing
    /\ st_error = <<>> /\ st_pyplot = <<>> /\ st_info = <<>>
    /\ stopped = FALSE /\ raised = "none"

NormInit ==
    /\ columns_in \in { <<s>> : s \in StringsUpTo(HeaderAlphabet, MaxLen) }
                        \cup {VariationHeaders}
    /\ columns_out = Nothing
    /\ columns_again = Nothing
    /\ LoadIdle /\ BtnIdle

\* d.columns = [normalize_name(c) for c in d.columns]
NormalizeColumns ==
    /\ columns_out = Nothing
    /\ columns_out' = Some(normalize_columns_names(columns_in))
    /\ UNCHANGED <<columns_in, columns_again, loadVars, btnVars>>

\* the same on the table it produced
NormalizeColumnsAgain ==
    /\ columns_out # Nothing
    /\ columns_again = Nothing
    /\ columns_again' = Some(normalize_columns_names(columns_out[1]))
    /\ UNCHANGED <<columns_in, columns_out, loadVars, btnVars>>

NormNext == NormalizeColumns \/ NormalizeColumnsAgain

NormSpec == NormInit /\ [][NormNext]_vars

(***************************************************************************)
(* Claims about normalize_name.                                            *)
(***************************************************************************)
UpperCase == Range(Upper) \cup {"E+acute", "C+cedilla"}

\* no upper-case letter, no non-word character, no "__", no "_" at an end
CanonicalName(x) ==
    /\ \A i \in DOMAIN x : x[i] \in Word /\ x[i] \notin UpperCase
    /\ \A i \in 1..(Len(x) - 1) : ~(x[i] = "_" /\ x[i + 1] = "_")
    /\ x # <<>> => (x[1] # "_" /\ x[Len(x)] # "_")

\* C6 as stated: normalize_name maps "Variation_%", "VARIATION %" and
\* "variation_pct" to one and the same identifier.
C6_ThreeHeadersOneName ==
    (columns_in = VariationHeaders /\ columns_out # Nothing)
        => /\ columns_out[1][1] = columns_out[1][2]
           /\ columns_out[1][2] = columns_out[1][3]

\* C6 amended: normalize_name maps "Variation_%" and "VARIATION %" to the one
\* identifier "variation", and "variation_pct" to itself (a different one).
C6_PercentHeadersOneName ==
    (columns_in = VariationHeaders /\ columns_out # Nothing)
        => /\ columns_out[1][1] = <<"v","a","r","i","a","t","i","o","n">>
           /\ columns_out[1][2] = columns_out[1][1]
           /\ columns_out[1][3] = VariationHeaders[3]

C6_Witness == columns_in = VariationHeaders /\ columns_out # Nothing

\* C7: normalize_name is total and idempotent, and its result is canonical:
\* no upper-case letter, no non-word character, no run of two underscores,
\* no leading or trailing underscore.
C7_NormalizeIdempotentCanonical ==
    /\ columns_out # Nothing =>
          /\ Len(columns_out[1]) = Len(columns_in)
          /\ \A i \in DOMAIN columns_out[1] : CanonicalName(columns_out[1][i])
    /\ columns_again # Nothing => columns_again = columns_out

\* an accented upper-case letter, spaces, punctuation and an underscore,
\* normalised twice
C7_Witness ==
    /\ columns_in = << <<" ", "E+acute", "%", "_">> >>
    /\ columns_out = Some(<< <<"e">> >>)
    /\ columns_again = Some(<< <<"e">> >>)


(***************************************************************************)
(* One call of a loader (or of one of its helpers) on a raw table.         *)
(***************************************************************************)
\* the headers of the raw tables
H_Date == <<"D","a","t","e">>
H_cours == <<"c","o","u","r","s">>
H_COURS == <<"C","O","U","R","S">>
H_prix_cloture == <<"p","r","i","x","_","c","l","o","t","u","r","e">>
H_MM50 == <<"M","M","5","0">>
H_mm200 == <<"m","m","2","0","0">>
H_close_mm50 == <<"c","l","o","s","e","_","m","m","5","0">>
H_court == <<"c","o","u","r","t">>
H_Variation == <<"V","a","r","i","a","t","i","o","n"," ","%">>

HeaderPool == {H_Date, H_cours, H_COURS, H_prix_cloture, H_mm200,
               H_close_mm50, H_court}

\* the entries of a returns column
CellPool == { <<"1","%">>,
              <<"-","2","%">>,
              <<"0",".","5","%">>,
              <<"6","0","%">>,
              <<"1","2",",","3","4">>,
              <<"1"," ","2","3","4",",","5">>,
              <<"a","b","c">>,
              <<"0",".","3">> }

\* pd.read_csv's type of a column: float64 when every entry is a number,
\* and object (the entries as str) otherwise
read_csv_column(cells) ==
    IF \A i \in DOMAIN cells : ParseFloat(cells[i]) # Nothing
    THEN Column("float64", [i \in DOMAIN cells |-> Num(ParseFloat(cells[i])[1])])
    ELSE Column("object", [i \in DOMAIN cells |-> Str(cells[i])])

\* a date column of n rows, latest first: "2024-01-0n", ..., "2024-01-01"
DateCells(n) ==
    [i \in 1..n |-> <<"2","0","2","4","-","0","1","-","0">>
                        \o <<Digit[(n - i) + 2]>>]

InjectiveSeqs(S, n) ==
    UNION { { s \in [1..k -> S] : \A i, j \in 1..k : s[i] = s[j] => i = j }
            : k \in 1..n }

\* tables that differ by their headers: two rows, a date column under "Date"
\* and numbers elsewhere
HeaderTables ==
    { Frame(cols, [i \in DOMAIN cols |->
                     IF cols[i] = H_Date
                     THEN read_csv_column(DateCells(2))
                     ELSE read_csv_column(<<<<"0",".","3">>, <<"0",".","1">>>>)])
      : cols \in InjectiveSeqs(HeaderPool, MaxCols) }

\* tables that differ by the entries of their returns column
DataTables ==
    { Frame(<<H_Date, H_Variation>>,
            <<read_csv_column(DateCells(Len(v))), read_csv_column(v)>>)
      : v \in UNION { [1..k -> CellPool] : k \in 1..MaxRows } }

CandidateLists ==
    { <<S_close, S_cours>>,
      <<S_date, S_jour, S_datetime>>,
      <<S_close, S_cours, S_price, S_close_price>>,
      <<S_mm50, S_ma50, S_sma50>>,
      <<S_mm200, S_ma200, S_sma200>>,
      <<S_court, S_rsi_court, S_rsi_short, S_rsi7, S_rsi_7>> }

LoadInit ==
    /\ df_raw \in { Some(tb) : tb \in HeaderTables \cup DataTables }
    /\ call = "none"
    /\ args = <<>>
    /\ ret = Nothing
    /\ NormIdle /\ BtnIdle

LoadVariation ==
    /\ call = "none"
    /\ call' = "load_variation"
    /\ ret' = Some(load_variation(df_raw[1]))
    /\ UNCHANGED <<df_raw, args, normVars, btnVars>>

LoadMm ==
    /\ call = "none"
    /\ call' = "load_mm"
    /\ ret' = Some(load_mm(df_raw[1]))
    /\ UNCHANGED <<df_raw, args, normVars, btnVars>>

LoadRsi ==
    /\ call = "none"
    /\ call' = "load_rsi"
    /\ ret' = Some(load_rsi(df_raw[1]))
    /\ UNCHANGED <<df_raw, args, normVars, btnVars>>

\* d = normalize_types(normalize_columns(df_raw))
NormalizeTypes ==
    /\ call = "none"
    /\ call' = "normalize_types"
    /\ ret' = Some(On(normalize_exc(df_raw[1]),
                      LAMBDA exc :
                        IF exc # "none" THEN Raise(exc, <<>>)
                        ELSE Return(normalize_types(
                                        normalize_columns(df_raw[1])), <<>>)))
    /\ UNCHANGED <<df_raw, args, normVars, btnVars>>

\* find_column(normalize_columns(df_raw), candidates)
FindColumn ==
    /\ call = "none"
    /\ \E candidates \in CandidateLists :
          /\ args' = candidates
          /\ ret' = Some([exc |-> "none", missing |-> <<>>, msgs |-> <<>>,
                           out |-> find_column(
                               normalize_columns(df_raw[1]).columns,
                               candidates)])
    /\ call' = "find_column"
    /\ UNCHANGED <<df_raw, normVars, btnVars>>

LoadNext == LoadVariation \/ LoadMm \/ LoadRsi \/ NormalizeTypes \/ FindColumn

LoadSpec == LoadInit /\ [][LoadNext]_vars


(***************************************************************************)
(* Claims about find_column, the numeric coercion and the loaders.         *)
(***************************************************************************)
Min(S) == CHOOSE x \in S : \A y \in S : x <= y

\* the labels find_column looks at
NormalizedHeaders == normalize_columns_names(df_raw[1].columns)

RawReturns == df_raw[1].data[2].vals

IsDataTable == df_raw # Nothing /\ df_raw[1].columns = <<H_Date, H_Variation>>

HasPercent(c) == c.k = "str" /\ \E i \in DOMAIN c.s : c.s[i] = "%"

\* the number an entry denotes once cleaned, or Nothing
Parsed(c) == IF c.k = "str" THEN ParseFloat(CleanNumber(c.s))
             ELSE IF c.k = "num" THEN Some(c.n) ELSE Nothing

\* C4: on a returns column whose entries each carry a percent sign,
\* load_variation returns each parsed value divided by 100, and emits no
\* outlier advisory when every entry is within +/-50%.
C4_PercentEntriesScaled ==
    (/\ call = "load_variation" /\ IsDataTable
     /\ \A i \in DOMAIN RawReturns :
           HasPercent(RawReturns[i]) /\ Parsed(RawReturns[i]) # Nothing)
    => /\ ret[1].exc = "none"
       /\ LET col == ColumnOf(ret[1].out[1], S_variation_pct)
          IN  \A i \in DOMAIN RawReturns :
                 col.vals[i] = Num(Parsed(RawReturns[i])[1] \div 100)
       /\ (\A i \in DOMAIN RawReturns :
              Abs(Parsed(RawReturns[i])[1]) <= 50 * Scale)
            => ret[1].msgs = <<>>

\* C5: the numeric coercion never raises, and in a column with parseable and
\* unparseable entries each unparseable entry becomes missing and each
\* parseable entry becomes its number.
C5_CoercionEntrywise ==
    (call = "normalize_types" /\ IsDataTable)
    => /\ ret[1].exc = "none"
       /\ LET col == ColumnOf(ret[1].out[1], normalize_name(H_Variation))
          IN  (/\ \E i \in DOMAIN RawReturns : Parsed(RawReturns[i]) # Nothing
               /\ \E i \in DOMAIN RawReturns : Parsed(RawReturns[i]) = Nothing)
              =>
              \A i \in DOMAIN RawReturns :
                 col.vals[i] = IF Parsed(RawReturns[i]) # Nothing
                               THEN Num(Parsed(RawReturns[i])[1])
                               ELSE NaN

\* the required logical columns a loader cannot resolve in the table
RequiredUnresolved(loader) ==
    LET cols == NormalizedHeaders
        date == IF S_date \in Range(cols) THEN Some(S_date)
                ELSE find_column(cols, <<S_date, S_jour, S_datetime>>)
        close == find_column(cols, <<S_close, S_cours, S_price, S_close_price>>)
    IN  (IF date = Nothing THEN {"date"} ELSE {})
        \cup (IF loader = "load_variation"
                   /\ find_column(cols, <<S_variation_pct, S_variation,
                          S_variation_journaliere, S_rendement, S_return>>)
                        = Nothing
              THEN {"variation_pct"} ELSE {})
        \cup (IF loader \in {"load_mm", "load_rsi"} /\ close = Nothing
              THEN {"close"} ELSE {})
        \cup (IF loader = "load_mm"
                   /\ find_column(cols, <<S_mm50, S_ma50, S_sma50>>) = Nothing
              THEN {"mm50"} ELSE {})
        \cup (IF loader = "load_mm"
                   /\ find_column(cols, <<S_mm200, S_ma200, S_sma200>>) = Nothing
              THEN {"mm200"} ELSE {})

\* C8: a loader fails, returning no table, exactly when a required logical
\* column cannot be resolved; in load_rsi an absent optional column is no
\* error: the table returned lacks that column.
C8_FailsIffRequiredUnresolved ==
    call \in {"load_variation", "load_mm", "load_rsi"} =>
        /\ (ret[1].exc # "none") <=> (RequiredUnresolved(call) # {})
        /\ ret[1].exc # "none" => ret[1].out = Nothing
        /\ (call = "load_rsi" /\ RequiredUnresolved(call) = {}) =>
              /\ ret[1].exc = "none"
              /\ find_column(NormalizedHeaders,
                     <<S_court, S_rsi_court, S_rsi_short, S_rsi7, S_rsi_7>>)
                   = Nothing
                 => S_court \notin Range(ret[1].out[1].columns)

\* C10: when load_mm returns, its table has exactly the columns date, close,
\* mm50 and mm200, each taken from a different input column.
C10_LoadMmFourDistinctColumns ==
    (call = "load_mm" /\ ret[1].exc = "none") =>
        LET cols == NormalizedHeaders
            sel == << IF S_date \in Range(cols) THEN Some(S_date)
                      ELSE find_column(cols, <<S_date, S_jour, S_datetime>>),
                      find_column(cols, <<S_close, S_cours, S_price,
                                          S_close_price>>),
                      find_column(cols, <<S_mm50, S_ma50, S_sma50>>),
                      find_column(cols, <<S_mm200, S_ma200, S_sma200>>) >>
        IN  /\ ret[1].out[1].columns = <<S_date, S_close, S_mm50, S_mm200>>
            /\ \A i, j \in 1..4 : sel[i] = sel[j] => i = j


(***************************************************************************)
(* The button action "Charger & produire les graphiques".                  *)
(***************************************************************************)
Sheets == {"var", "mm", "rsi"}

Pc(step, sheet) == <<step, sheet>>

\* the statement that follows the try statement of a sheet
AfterSheet(t) ==
    IF t = "var" THEN Pc("fetch", "mm")
    ELSE IF t = "mm" THEN Pc("fetch", "rsi")
    ELSE Pc("render", "rsi")

\* the statement that follows the "if df is not None: plot(df)" of a sheet
AfterRender(t) ==
    IF t = "rsi" THEN Pc("render", "var")
    ELSE IF t = "var" THEN Pc("render", "mm")
    ELSE Pc("done", "")

\* an except clause that would end the action: a variant the independence of
\* the sheets must tell apart
AfterExcept_Abort(t) == Pc("done", "")

\* where control goes once the except clause of a sheet has run
AfterExcept(t) == AfterSheet(t)

HttpError == [status |-> "error", table |-> Nothing]
Csv(tb) == [status |-> "ok", table |-> Some(tb)]

\* fetch_csv_as_df(csv_export_url(sheet_id, gid)): the export of the document
\* the server publishes, and an HTTP error for any other id
fetch_csv_as_df(id, t) ==
    IF id = server.doc THEN server.sheets[t] ELSE HttpError

Loader(t, raw) ==
    IF t = "var" THEN load_variation(raw)
    ELSE IF t = "mm" THEN load_mm(raw)
    ELSE load_rsi(raw)

Plot(t, d, m) ==
    IF t = "rsi" THEN plot_rsi(d)
    ELSE IF t = "var" THEN plot_variation(d, m)
    ELSE plot_mm(d)

\* a variable of the script: not bound yet, None, or a value
Unbound == Nothing
PyNone == Some(Nothing)
IsValue(x) == x # Unbound /\ x # PyNone

\* ---- what the sheets may hold ----
NoDates(n) == [i \in 1..n |-> <<"n", "/", "a">>]
Numbers == <<<<"0", ".", "3">>, <<"0", ".", "1">>>>

SheetTable(headers, dates) ==
    Frame(headers,
          [i \in DOMAIN headers |->
              IF headers[i] = H_Date THEN read_csv_column(dates)
              ELSE read_csv_column(Numbers)])

VarTables ==
    { SheetTable(<<H_Date, H_Variation>>, DateCells(2)),
      Frame(<<H_Date, H_Variation>>,
            <<read_csv_column(DateCells(2)),
              read_csv_column(<<<<"1", "%">>, <<"-", "2", "%">>>>)>>),
      SheetTable(<<H_Date>>, DateCells(2)),
      SheetTable(<<H_Date, H_Variation>>, NoDates(2)) }

MmTables ==
    { SheetTable(<<H_Date, H_cours, H_MM50, H_mm200>>, DateCells(2)),
      SheetTable(<<H_Date, H_close_mm50, H_mm200>>, DateCells(2)),
      SheetTable(<<H_Date, H_cours>>, DateCells(2)),
      SheetTable(<<H_Date, H_cours, H_MM50, H_mm200>>, NoDates(2)) }

RsiTables ==
    { SheetTable(<<H_Date, H_cours, H_court>>, DateCells(2)),
      SheetTable(<<H_Date, H_cours>>, DateCells(2)),
      SheetTable(<<H_cours, H_court>>, DateCells(2)),
      SheetTable(<<H_Date, H_cours, H_court>>, NoDates(2)) }

TablesOf(t) ==
    IF t = "var" THEN VarTables ELSE IF t = "mm" THEN MmTables ELSE RsiTables

Responses(t) == {HttpError} \cup { Csv(tb) : tb \in TablesOf(t) }

\* the id of the document the server publishes, and a URL of it
DocId == <<"d">>
DocUrl == <<"/", "d", "/", "d", "/">>

GoodSheets ==
    [t \in Sheets |->
        Csv(IF t = "var" THEN SheetTable(<<H_Date, H_Variation>>, DateCells(2))
            ELSE IF t = "mm"
            THEN SheetTable(<<H_Date, H_cours, H_MM50, H_mm200>>, DateCells(2))
            ELSE SheetTable(<<H_Date, H_cours, H_court>>, DateCells(2)))]

UrlAlphabet == {"/", "d", " "}

BtnInit ==
    /\ \/ /\ url_or_id \in StringsUpTo(UrlAlphabet, MaxUrlLen)
          /\ server = [doc |-> DocId, sheets |-> GoodSheets]
       \/ /\ url_or_id = DocUrl
          /\ server \in { [doc |-> DocId, sheets |-> s] :
                            s \in { f \in [Sheets -> UNION { Responses(t) : t \in Sheets }] :
                                      \A t \in Sheets : f[t] \in Responses(t) } }
    /\ pc = Pc("extract", "")
    /\ sheet_id = Nothing
    /\ fetched = <<>>
    /\ loaded = <<>>
    /\ dfs = [t \in Sheets |-> Unbound]
    /\ msgs_of = [t \in Sheets |-> Unbound]
    /\ st_error = <<>>
    /\ st_pyplot = <<>>
    /\ st_info = <<>>
    /\ stopped = FALSE
    /\ raised = "none"
    /\ NormIdle /\ LoadIdle

\* try: sheet_id = extract_spreadsheet_id(url_or_id)
\* except Exception: st.error(...); st.stop()
ExtractId ==
    /\ pc = Pc("extract", "")
    /\ IF extract_spreadsheet_id_exc(url_or_id) # "none"
       THEN /\ st_error' = Append(st_error, <<"config", "">>)
            /\ stopped' = TRUE
            /\ pc' = Pc("stopped", "")
            /\ UNCHANGED sheet_id
       ELSE /\ sheet_id' = Some(extract_spreadsheet_id(url_or_id))
            /\ pc' = Pc("fetch", "var")
            /\ UNCHANGED <<st_error, stopped>>
    /\ UNCHANGED <<url_or_id, server, fetched, loaded, dfs, msgs_of,
                   st_pyplot, st_info, raised, normVars, loadVars>>

\* df_raw = fetch_csv_as_df(csv_export_url(sheet_id, int(gid)))
\* except Exception: df = None; st.error(...)
FetchCsv(t) ==
    /\ pc = Pc("fetch", t)
    /\ fetched' = Append(fetched, t)
    /\ \E resp \in {fetch_csv_as_df(sheet_id[1], t)} :
           IF resp.status = "ok"
           THEN /\ df_raw' = resp.table
                /\ pc' = Pc("load", t)
                /\ UNCHANGED <<dfs, st_error>>
           ELSE /\ dfs' = [dfs EXCEPT ![t] = PyNone]
                /\ st_error' = Append(st_error, <<"load", t>>)
                /\ pc' = AfterExcept(t)
                /\ UNCHANGED df_raw
    /\ UNCHANGED <<url_or_id, server, sheet_id, loaded, msgs_of, st_pyplot,
                   st_info, stopped, raised, normVars, call, args, ret>>

\* df, msgs = load(df_raw)
\* except Exception: df = None; st.error(...)
LoadSheet(t) ==
    /\ pc = Pc("load", t)
    /\ loaded' = Append(loaded, t)
    /\ \E r \in {Loader(t, df_raw[1])} :
           IF r.exc = "none"
           THEN /\ dfs' = [dfs EXCEPT ![t] = Some(r.out)]
                /\ msgs_of' = [msgs_of EXCEPT ![t] = Some(r.msgs)]
                /\ pc' = AfterSheet(t)
                /\ UNCHANGED st_error
           ELSE /\ dfs' = [dfs EXCEPT ![t] = PyNone]
                /\ st_error' = Append(st_error, <<"load", t>>)
                /\ pc' = AfterExcept(t)
                /\ UNCHANGED msgs_of
    /\ df_raw' = Nothing
    /\ UNCHANGED <<url_or_id, server, sheet_id, fetched, st_pyplot, st_info,
                   stopped, raised, normVars, call, args, ret>>

\* if df is not None: plot(df); an exception of plot ends the script run
Render(t) ==
    /\ pc = Pc("render", t)
    /\ IF dfs[t] = PyNone
       THEN /\ pc' = AfterRender(t)
            /\ UNCHANGED <<st_pyplot, st_error, st_info, raised>>
       ELSE \E p \in {Plot(t, dfs[t][1][1], msgs_of[t][1])} :
                /\ st_pyplot' = IF p.pyplot THEN Append(st_pyplot, t)
                                ELSE st_pyplot
                /\ st_error' = st_error \o
                                  [i \in DOMAIN p.errors |-> <<"empty", p.errors[i]>>]
                /\ st_info' = st_info \o p.info
                /\ raised' = p.exc
                /\ pc' = IF p.exc = "none" THEN AfterRender(t)
                         ELSE Pc("crashed", t)
    /\ UNCHANGED <<url_or_id, server, sheet_id, fetched, loaded, dfs, msgs_of,
                   stopped, normVars, loadVars>>

BtnNext ==
    \/ ExtractId
    \/ \E t \in Sheets : FetchCsv(t)
    \/ \E t \in Sheets : LoadSheet(t)
    \/ \E t \in Sheets : Render(t)

BtnSpec == BtnInit /\ [][BtnNext]_vars


(***************************************************************************)
(* Claims about the button action.                                         *)
(***************************************************************************)
SheetOrder == <<"var", "mm", "rsi">>

IsPrefix(s, w) == Len(s) <= Len(w) /\ s = SubSeq(w, 1, Len(s))

\* the fetch-and-load of sheet t fails: the transport, or the loader on the
\* table the server holds
SheetFails(t) ==
    \/ fetch_csv_as_df(sheet_id[1], t).status # "ok"
    \/ Loader(t, fetch_csv_as_df(sheet_id[1], t).table[1]).exc # "none"

LoadStageOver == pc[1] \in {"render", "done", "crashed"}

\* C1: the three tables are each fetched and loaded once, in the order
\* variation, moving average, RSI, with no retry; a fetch or load failure of
\* one table makes only that table None, with one error message, and the
\* fetch-and-load of the remaining tables is still attempted.
C1_EachSheetOnceOthersContinue ==
    /\ IsPrefix(fetched, SheetOrder)
    /\ \A i, j \in DOMAIN loaded : loaded[i] = loaded[j] => i = j
    /\ \A i \in DOMAIN loaded :
          /\ loaded[i] \in Range(fetched)
          /\ fetch_csv_as_df(sheet_id[1], loaded[i]).status = "ok"
    /\ LoadStageOver =>
          /\ fetched = SheetOrder
          /\ \A t \in Sheets :
                /\ (t \in Range(loaded))
                      <=> (fetch_csv_as_df(sheet_id[1], t).status = "ok")
                /\ IF SheetFails(t)
                   THEN dfs[t] = PyNone /\ CountOf(st_error, <<"load", t>>) = 1
                   ELSE IsValue(dfs[t]) /\ CountOf(st_error, <<"load", t>>) = 0

\* the variation fetch failed and load_mm raised, and the RSI table was
\* fetched and loaded all the same
C1_Witness ==
    /\ LoadStageOver
    /\ fetch_csv_as_df(sheet_id[1], "var").status # "ok"
    /\ dfs["var"] = PyNone /\ dfs["mm"] = PyNone /\ IsValue(dfs["rsi"])
    /\ fetched = SheetOrder
    /\ loaded = <<"mm", "rsi">>
    /\ st_error = <<<<"load", "var">>, <<"load", "mm">>>>

\* the table has a row with a valid date
HasValidDateRow(d) ==
    /\ S_date \in Range(d.columns)
    /\ \E r \in DOMAIN ColumnOf(d, S_date).vals :
          ColumnOf(d, S_date).vals[r].k = "date"

ActionOver == pc[1] \in {"done", "crashed", "stopped"}

\* C2: no error is fatal to the whole action: each table whose load succeeded
\* and that has a row with a valid date has its chart rendered before the
\* action ends, whatever happens while the other charts are rendered.
C2_EveryLoadedTableRendered ==
    ActionOver =>
        \A t \in Sheets :
            (IsValue(dfs[t]) /\ HasValidDateRow(dfs[t][1][1]))
                => t \in Range(st_pyplot)

\* C9: a missing source identifier (an empty or blank field) is raised as a
\* configuration error at once and halts the action: no fetch is issued.
C9_BlankSourceHalts ==
    Strip(url_or_id, Whitespace) = <<>> =>
        /\ fetched = <<>>
        /\ pc # Pc("extract", "") =>
              stopped /\ <<"config", "">> \in Range(st_error)

=============================================================================
